---- MODULE Spec2Model ----
(***************************************************************************)
(* Model of the command-catalog single-page application: the catalog view  *)
(* (pages/Commands.tsx), the administration view (pages/Admin.tsx) and the *)
(* remote row store they call.  Every remote call is three steps: the      *)
(* handler issues it (client), the store executes it (server), and the     *)
(* handler's continuation runs on the response (client).  A handler keeps  *)
(* the state values of the render that created it, so each call in flight  *)
(* carries the lists it captured when it was triggered.                    *)
(***************************************************************************)
EXTENDS Integers, Sequences, FiniteSets, TLC

\* ---------------------------------------------------------------- bounds
MaxLen == 2          \* longest command list the filter is applied to
MaxCommands == 2     \* command rows ever created (ids 1..MaxCommands)
MaxInFlight == 2     \* handler invocations in flight at once
MaxClock == 3        \* handler invocations altogether

\* ---------------------------------------------------------------- strings
\* A string is a sequence of characters; upper-case letters are "A", "B".
Lower(ch) == CASE ch = "A" -> "a" [] ch = "B" -> "b" [] OTHER -> ch

toLowerCaseKeepingCase(s) == s

toLowerCase(s) == [i \in 1..Len(s) |-> Lower(s[i])]

includes(s, t) == \E i \in 0..(Len(s) - Len(t)) : SubSeq(s, i + 1, i + Len(t)) = t

\* ---------------------------------------------------------------- catalog filter
categories ==
    <<"all", "system", "network", "database", "development", "security", "monitoring", "deployment">>

SearchMatchNoLowerTerm(cmd, term) ==
    \/ includes(toLowerCase(cmd.name), term)
    \/ includes(toLowerCase(cmd.description), term)
    \/ includes(toLowerCase(cmd.command), term)

SearchMatch(cmd, term) ==
    \/ includes(toLowerCase(cmd.name), toLowerCase(term))
    \/ includes(toLowerCase(cmd.description), toLowerCase(term))
    \/ includes(toLowerCase(cmd.command), toLowerCase(term))

filterCommandsCategoryFromSource(cmds, term, category) ==
    LET bySearch == IF term # <<>>
                    THEN SelectSeq(cmds, LAMBDA cmd : SearchMatch(cmd, term))
                    ELSE cmds
    IN IF category # "all"
       THEN SelectSeq(cmds, LAMBDA cmd : cmd.category = category)
       ELSE bySearch

filterCommands(cmds, term, category) ==
    LET bySearch == IF term # <<>>
                    THEN SelectSeq(cmds, LAMBDA cmd : SearchMatch(cmd, term))
                    ELSE cmds
    IN IF category # "all"
       THEN SelectSeq(bySearch, LAMBDA cmd : cmd.category = category)
       ELSE bySearch

\* ---------------------------------------------------------------- data
NoUser == "none"                     \* no identity (user is null)
Users == {"u1", "u2"}                \* ids of the user_profiles rows
UserOrder == <<"u2", "u1">>          \* user_profiles by created_at, newest first

\* Texts a field of a listed command holds, and search terms typed.
NameTexts == {<<"l", "s">>, <<"A", "b">>, <<"b">>}
DescriptionTexts == {<<"a">>, <<"B", "a">>}
CommandTexts == {<<"l", "s">>, <<"b", "A">>}
SearchTerms == {<<>>, <<"a">>, <<"B">>, <<"a", "b">>, <<"A", "B">>, <<"s">>}
CategoryInputs == {"system", "network"}
SelectorInputs == {"all", "system", "network"}

\* What the add/edit form can submit (every text field is "required").
FormInputs ==
    { [name |-> <<"l", "s">>, description |-> <<"a">>, command |-> <<"l", "s">>,
       category |-> "system", is_active |-> TRUE],
      [name |-> <<"A", "b">>, description |-> <<"B", "a">>, command |-> <<"b", "A">>,
       category |-> "network", is_active |-> TRUE] }

Row(id, form, creator, active, stamp) ==
    [id |-> id, name |-> form.name, description |-> form.description,
     command |-> form.command, category |-> form.category,
     created_by |-> creator, is_active |-> active, updated_at |-> stamp]

FormSystem == CHOOSE f \in FormInputs : f.category = "system"
FormNetwork == CHOOSE f \in FormInputs : f.category = "network"

\* Stores the application can find when it starts; rows are numbered in
\* creation order, so the id doubles as created_at.
InitialCommandTables ==
    { {},
      {Row(1, FormSystem, "u1", TRUE, 0)},
      {Row(1, FormSystem, "u1", TRUE, 0), Row(2, FormNetwork, "u2", FALSE, 0)},
      {Row(1, FormSystem, "u1", TRUE, 0), Row(2, FormNetwork, "u2", TRUE, 0)} }

InitialUserTables == { [u \in Users |-> u = "u1"] }

\* Command lists of the filter's input space: ids by position.
FilterRows(i) ==
    { [id |-> i, name |-> n, description |-> d, command |-> c, category |-> g,
       created_by |-> "u1", is_active |-> TRUE, updated_at |-> 0] :
         n \in NameTexts, d \in DescriptionTexts, c \in CommandTexts, g \in CategoryInputs }

FilterLists ==
    UNION { { l \in [1..n -> UNION {FilterRows(i) : i \in 1..n}] :
                \A i \in 1..n : l[i].id = i } : n \in 0..MaxLen }

\* ---------------------------------------------------------------- state
VARIABLES
    tblCommands,      \* store: the rows of table "commands"
    tblUsers,         \* store: is_admin of each row of table "user_profiles"
    nextId,           \* store: id (and creation rank) of the next inserted command
    user,             \* session: id of the signed-in identity, or NoUser
    isAdmin,          \* session: administrator flag derived from the profile
    route,            \* which page is mounted: "home", "commands" or "admin"
    commands,         \* catalog: local command list
    filteredCommands, \* catalog: derived filtered list
    loading,          \* catalog: loading flag
    searchTerm,       \* catalog: free-text query
    selectedCategory, \* catalog: category selector
    showAddModal,     \* catalog: add dialog open
    editingCommand,   \* catalog: <<>> (null) or <<row being edited>>
    created,          \* history: ids of the rows the mounted catalog's handlers inserted
    users,            \* administration: local users list
    adminCommands,    \* administration: local commands list
    stats,            \* administration: derived counts
    adminLoading,     \* administration: loading flag
    calls,            \* handler invocations in flight, in the order issued
    clock,            \* handler invocations so far; also the client's clock
    lastAction        \* history: the UI event or call step taken last

storeVars == <<tblCommands, tblUsers, nextId>>
sessionVars == <<user, isAdmin>>
filterVars == <<searchTerm, selectedCategory>>
catalogVars == <<commands, filteredCommands, loading, showAddModal, editingCommand, created>>
adminVars == <<users, adminCommands, stats, adminLoading>>
vars == <<storeVars, sessionVars, route, filterVars, catalogVars, adminVars,
          calls, clock, lastAction>>

ZeroStats == [totalUsers |-> 0, totalCommands |-> 0, activeCommands |-> 0, adminUsers |-> 0]

\* History: the handler invocation the step taken last began (step "trigger": it
\* issued a remote call, now at position k of calls; step "return": it returned
\* without issuing one; step "caught": its remote call failed and its catch
\* block ran; op: the handler; input: the answers given to the dialogs it
\* showed).  Every other step resets it to NoInput.
Step(step, op, k, input) == [step |-> step, op |-> op, k |-> k, input |-> input]

NoInput == Step("", "", 0, <<>>)

\* The state of a freshly mounted catalog / administration component.
CatalogMounted ==
    /\ commands = <<>> /\ filteredCommands = <<>> /\ loading = TRUE
    /\ showAddModal = FALSE /\ editingCommand = <<>>
    /\ created = {}

AdminMounted ==
    /\ users = <<>> /\ adminCommands = <<>> /\ stats = ZeroStats /\ adminLoading = TRUE

\* A component that is unmounted loses its state; the next mount starts afresh.
RemountCatalog ==
    /\ commands' = <<>> /\ filteredCommands' = <<>> /\ loading' = TRUE
    /\ showAddModal' = FALSE /\ editingCommand' = <<>>
    /\ created' = {}

RemountAdmin ==
    /\ users' = <<>> /\ adminCommands' = <<>> /\ stats' = ZeroStats /\ adminLoading' = TRUE

Init ==
    /\ tblCommands \in InitialCommandTables
    /\ tblUsers \in InitialUserTables
    /\ nextId = Cardinality(tblCommands) + 1
    /\ user = NoUser /\ isAdmin = FALSE
    /\ route = "home"
    /\ searchTerm = <<>> /\ selectedCategory = "all"
    /\ CatalogMounted
    /\ AdminMounted
    /\ calls = <<>>
    /\ clock = 0
    /\ lastAction = NoInput

\* ---------------------------------------------------------------- filter input space
\* The catalog showing an arbitrary fetched list, with the search box and the
\* category selector being operated.
InitFilter ==
    /\ tblCommands = {} /\ tblUsers = [u \in Users |-> u = "u1"] /\ nextId = 1
    /\ user = NoUser /\ isAdmin = FALSE
    /\ route = "commands"
    /\ searchTerm = <<>> /\ selectedCategory = "all"
    /\ commands \in FilterLists
    /\ filteredCommands = filterCommands(commands, searchTerm, selectedCategory)
    /\ loading = FALSE /\ showAddModal = FALSE /\ editingCommand = <<>> /\ created = {}
    /\ AdminMounted
    /\ calls = <<>>
    /\ clock = 0
    /\ lastAction = NoInput

setSearchTerm(term) ==
    /\ UNCHANGED created
    /\ route = "commands" /\ ~loading
    /\ searchTerm' = term
    /\ filteredCommands' = filterCommands(commands, term, selectedCategory)
    /\ lastAction' = Step("ui", "setSearchTerm", 0, <<>>)
    /\ UNCHANGED <<storeVars, sessionVars, route, selectedCategory, commands, loading,
                   showAddModal, editingCommand, adminVars, calls, clock>>

setSelectedCategory(category) ==
    /\ UNCHANGED created
    /\ route = "commands" /\ ~loading
    /\ selectedCategory' = category
    /\ filteredCommands' = filterCommands(commands, searchTerm, category)
    /\ lastAction' = Step("ui", "setSelectedCategory", 0, <<>>)
    /\ UNCHANGED <<storeVars, sessionVars, route, searchTerm, commands, loading,
                   showAddModal, editingCommand, adminVars, calls, clock>>

NextFilter ==
    \/ \E term \in SearchTerms : setSearchTerm(term)
    \/ \E category \in SelectorInputs : setSelectedCategory(category)

SpecFilter == InitFilter /\ [][NextFilter]_vars

\* The catalog showing three commands tagged system, network, system, whatever
\* their texts.
ScenarioCategories == <<"system", "network", "system">>

ScenarioLists ==
    { l \in [1..Len(ScenarioCategories) ->
                UNION {FilterRows(i) : i \in 1..Len(ScenarioCategories)}] :
        \A i \in 1..Len(ScenarioCategories) :
            l[i].id = i /\ l[i].category = ScenarioCategories[i] }

InitScenario ==
    /\ tblCommands = {} /\ tblUsers = [u \in Users |-> u = "u1"] /\ nextId = 1
    /\ user = NoUser /\ isAdmin = FALSE
    /\ route = "commands"
    /\ searchTerm = <<>> /\ selectedCategory = "all"
    /\ commands \in ScenarioLists
    /\ filteredCommands = filterCommands(commands, searchTerm, selectedCategory)
    /\ loading = FALSE /\ showAddModal = FALSE /\ editingCommand = <<>> /\ created = {}
    /\ AdminMounted
    /\ calls = <<>>
    /\ clock = 0
    /\ lastAction = NoInput

SpecScenario == InitScenario /\ [][NextFilter]_vars

\* ---------------------------------------------------------------- the row store
SortedDesc(rows) ==
    CHOOSE l \in [1..Cardinality(rows) -> rows] :
        \A i, j \in 1..Cardinality(rows) : i < j => l[i].id > l[j].id

SelectCommandsOfAnyStatus(tbl) == SortedDesc(tbl)

\* from('commands').select('*').eq('is_active', true).order('created_at', desc)
SelectActiveCommands(tbl) == SortedDesc({r \in tbl : r.is_active})

\* from('commands').select('*').order('created_at', desc)
SelectAllCommands(tbl) == SortedDesc(tbl)

\* from('user_profiles').select('*').order('created_at', desc)
SelectUsers(tbl) ==
    [i \in 1..Len(UserOrder) |-> [id |-> UserOrder[i], is_admin |-> tbl[UserOrder[i]]]]

\* update(patch).eq('id', id): the patch is a function from rows to rows
UpdateById(tbl, id, Patch(_)) == {IF r.id = id THEN Patch(r) ELSE r : r \in tbl}

DeleteById(tbl, id) == {r \in tbl : r.id # id}

\* delete().neq('id', nil uuid): no row carries the nil uuid
DeleteAllCommands(tbl) == {r \in tbl : r.id = 0}

ClearAdminOfAll(tbl, keep) == [u \in Users |-> FALSE]

\* update({is_admin: false}).neq('id', keep)
ClearAdminExcept(tbl, keep) == [u \in Users |-> IF u # keep THEN FALSE ELSE tbl[u]]

Answer(confirmed) == IF confirmed THEN "yes" ELSE "no"

\* ---------------------------------------------------------------- calls in flight
NoResult == [ok |-> FALSE, rows |-> <<>>]

\* One handler invocation: op is the handler, pc its position ("req": the
\* remote call is on its way, "resp": its response is on its way back; "req2",
\* "resp2" for a handler's second remote call), id/uid/flag its arguments,
\* form the submitted form, snap the list its closure captured, actor the
\* identity its closure captured, stamp the time new Date() gave it (0 when the
\* handler does not read the time), res the
\* response, udata the users rows fetchData got from its first query, live
\* whether the component that issued it is still mounted.
Call(op, id, uid, flag, form, snap, actor, stamp) ==
    [op |-> op, pc |-> "req", id |-> id, uid |-> uid, flag |-> flag, form |-> form,
     snap |-> snap, actor |-> actor, stamp |-> stamp, res |-> NoResult,
     udata |-> <<>>, live |-> TRUE]

RemoveAt(seq, k) == SubSeq(seq, 1, k - 1) \o SubSeq(seq, k + 1, Len(seq))

\* Unmounting a component: React drops the state updates of its handlers still
\* in flight.  A handler with no remote mutation left to issue or execute has
\* no effect any more and is dropped; the others go on without their lists.
HasStoreWorkLeft(call) ==
    \/ call.op = "resetDatabase"
    \/ call.op \notin {"fetchCommands", "fetchData"} /\ call.pc = "req"

Orphaned(seq) ==
    LET left == SelectSeq(seq, HasStoreWorkLeft)
    IN [k \in 1..Len(left) |-> [left[k] EXCEPT !.live = FALSE, !.snap = <<>>]]

CanIssue == clock < MaxClock /\ Len(calls) < MaxInFlight

Issue(call, input) ==
    /\ calls' = Append(calls, call)
    /\ clock' = clock + 1
    /\ lastAction' = Step("trigger", call.op, Len(calls) + 1, input)

\* ---------------------------------------------------------------- session and routing
signIn(u) ==
    /\ user = NoUser
    /\ user' = u
    /\ isAdmin' = tblUsers[u]
    /\ lastAction' = NoInput
    /\ UNCHANGED <<storeVars, route, filterVars, catalogVars, adminVars, calls, clock>>

signOut ==
    /\ user # NoUser
    /\ user' = NoUser
    /\ isAdmin' = FALSE
    /\ lastAction' = NoInput
    /\ IF route = "admin"
       THEN /\ route' = "home"
            /\ calls' = Orphaned(calls)
            /\ RemountAdmin
       ELSE UNCHANGED <<route, calls, adminVars>>
    /\ UNCHANGED <<storeVars, filterVars, catalogVars, clock>>

navigateHome ==
    /\ route # "home"
    /\ route' = "home"
    /\ calls' = Orphaned(calls)
    /\ RemountCatalog /\ RemountAdmin
    /\ lastAction' = NoInput
    /\ UNCHANGED <<storeVars, sessionVars, filterVars, clock>>

\* Mounting the catalog runs fetchCommands.
mountCommands ==
    /\ route # "commands"
    /\ CanIssue
    /\ route' = "commands"
    /\ RemountCatalog /\ RemountAdmin
    /\ LET call == Call("fetchCommands", 0, NoUser, FALSE, <<>>, <<>>, NoUser, 0)
       IN /\ calls' = Append(Orphaned(calls), call)
          /\ lastAction' = Step("trigger", "fetchCommands", Len(Orphaned(calls)) + 1, <<>>)
    /\ clock' = clock + 1
    /\ UNCHANGED <<storeVars, sessionVars, filterVars>>

\* Mounting the administration view runs fetchData.
mountAdmin ==
    /\ route # "admin"
    /\ user # NoUser /\ isAdmin
    /\ CanIssue
    /\ route' = "admin"
    /\ RemountCatalog /\ RemountAdmin
    /\ LET call == Call("fetchData", 0, NoUser, FALSE, <<>>, <<>>, NoUser, 0)
       IN /\ calls' = Append(Orphaned(calls), call)
          /\ lastAction' = Step("trigger", "fetchData", Len(Orphaned(calls)) + 1, <<>>)
    /\ clock' = clock + 1
    /\ UNCHANGED <<storeVars, sessionVars, filterVars>>

\* ---------------------------------------------------------------- remote call steps
Pending(k, op, pc) == k \in 1..Len(calls) /\ calls[k].op = op /\ calls[k].pc = pc

\* The store answers call k with res; the handler then waits at position pc.
Respond(k, res, pc) ==
    /\ calls' = [calls EXCEPT ![k] = [@ EXCEPT !.pc = pc, !.res = res]]
    /\ lastAction' = NoInput

\* Handler k has run to its end; the history keeps the handler whose catch block
\* ran in a component still mounted.
Finish(k) ==
    /\ calls' = RemoveAt(calls, k)
    /\ lastAction' = IF calls[k].live /\ ~calls[k].res.ok
                     THEN Step("caught", calls[k].op, 0, <<>>)
                     ELSE NoInput

\* ---------------------------------------------------------------- catalog view
\* setCommands followed by the filterCommands effect
SetCommands(list) ==
    /\ commands' = list
    /\ filteredCommands' = filterCommands(list, searchTerm, selectedCategory)

ModalOpen == showAddModal \/ editingCommand # <<>>

CatalogReady == route = "commands" /\ ~loading

CanManageWhenSignedIn(cmd) == user # NoUser

\* The edit and delete controls of a listed command are rendered.
CanManage(cmd) == isAdmin \/ cmd.created_by = user

fetchCommandsExec(k, ok) ==
    /\ Pending(k, "fetchCommands", "req")
    /\ Respond(k, IF ok THEN [ok |-> TRUE, rows |-> SelectActiveCommands(tblCommands)]
                        ELSE NoResult, "resp")
    /\ UNCHANGED <<storeVars, sessionVars, route, filterVars, catalogVars, adminVars, clock>>

fetchCommandsResume(k) ==
    /\ UNCHANGED created
    /\ Pending(k, "fetchCommands", "resp")
    /\ Finish(k)
    /\ IF calls[k].live
       THEN /\ IF calls[k].res.ok THEN SetCommands(calls[k].res.rows)
                                  ELSE UNCHANGED <<commands, filteredCommands>>
            /\ loading' = FALSE
       ELSE UNCHANGED <<commands, filteredCommands, loading>>
    /\ UNCHANGED <<storeVars, sessionVars, route, filterVars, showAddModal, editingCommand,
                   adminVars, clock>>

openAddModal ==
    /\ UNCHANGED created
    /\ CatalogReady /\ ~ModalOpen
    /\ user # NoUser
    /\ showAddModal' = TRUE
    /\ lastAction' = NoInput
    /\ UNCHANGED <<storeVars, sessionVars, route, filterVars, commands, filteredCommands,
                   loading, editingCommand, adminVars, calls, clock>>

startEdit(i) ==
    /\ UNCHANGED created
    /\ CatalogReady /\ ~ModalOpen
    /\ i \in 1..Len(filteredCommands)
    /\ CanManage(filteredCommands[i])
    /\ editingCommand' = <<filteredCommands[i]>>
    /\ lastAction' = NoInput
    /\ UNCHANGED <<storeVars, sessionVars, route, filterVars, commands, filteredCommands,
                   loading, showAddModal, adminVars, calls, clock>>

closeModal ==
    /\ UNCHANGED created
    /\ CatalogReady /\ ModalOpen
    /\ showAddModal' = FALSE
    /\ editingCommand' = <<>>
    /\ lastAction' = NoInput
    /\ UNCHANGED <<storeVars, sessionVars, route, filterVars, commands, filteredCommands,
                   loading, adminVars, calls, clock>>

\* rows the inserts still in flight will create
InsertsInFlight == Cardinality({k \in 1..Len(calls) : calls[k].op = "handleAddCommand"
                                                       /\ calls[k].pc = "req"})

\* The add form submitted: handleAddCommand(formData).
handleAddCommand(form) ==
    /\ CatalogReady /\ ModalOpen /\ editingCommand = <<>>
    /\ IF user = NoUser
       THEN /\ lastAction' = Step("return", "handleAddCommand", 0, <<>>)
            /\ UNCHANGED <<calls, clock>>
       ELSE /\ CanIssue
            /\ nextId + InsertsInFlight <= MaxCommands
            /\ Issue(Call("handleAddCommand", 0, NoUser, FALSE,
                          <<[form EXCEPT !.is_active = TRUE]>>, commands, user, 0), <<>>)
    /\ UNCHANGED <<storeVars, sessionVars, route, filterVars, catalogVars, adminVars>>

InsertedByCurrentUser(call, id) == Row(id, call.form[1], user, call.form[1].is_active, clock)

\* the row insert({...commandData, created_by: user.id}) creates
Inserted(call, id) == Row(id, call.form[1], call.actor, call.form[1].is_active, clock)

handleAddCommandExec(k, ok) ==
    /\ Pending(k, "handleAddCommand", "req")
    /\ IF ok
       THEN /\ tblCommands' = tblCommands \cup {Inserted(calls[k], nextId)}
            /\ nextId' = nextId + 1
            /\ Respond(k, [ok |-> TRUE, rows |-> <<Inserted(calls[k], nextId)>>], "resp")
            /\ created' = IF calls[k].live THEN created \cup {nextId} ELSE created
       ELSE /\ Respond(k, NoResult, "resp")
            /\ UNCHANGED <<tblCommands, nextId, created>>
    /\ UNCHANGED <<tblUsers, sessionVars, route, filterVars, commands, filteredCommands, loading,
                   showAddModal, editingCommand, adminVars, clock>>

AddedAtEnd(call) == call.snap \o <<call.res.rows[1]>>

\* [data, ...commands]
AddedLocally(call) == <<call.res.rows[1]>> \o call.snap

handleAddCommandResume(k) ==
    /\ UNCHANGED created
    /\ Pending(k, "handleAddCommand", "resp")
    /\ Finish(k)
    /\ IF calls[k].live /\ calls[k].res.ok
       THEN /\ SetCommands(AddedLocally(calls[k]))
            /\ showAddModal' = FALSE
       ELSE UNCHANGED <<commands, filteredCommands, showAddModal>>
    /\ UNCHANGED <<storeVars, sessionVars, route, filterVars, loading, editingCommand,
                   adminVars, clock>>

\* The edit form submitted: handleUpdateCommand(editingCommand.id, formData).
handleUpdateCommand(form) ==
    /\ CatalogReady /\ editingCommand # <<>>
    /\ CanIssue
    /\ Issue(Call("handleUpdateCommand", editingCommand[1].id, NoUser, FALSE,
                  <<[form EXCEPT !.is_active = editingCommand[1].is_active]>>,
                  commands, user, clock), <<>>)
    /\ UNCHANGED <<storeVars, sessionVars, route, filterVars, catalogVars, adminVars>>

UpdatePatchKeepingStamp(call, r) ==
    Row(r.id, call.form[1], r.created_by, call.form[1].is_active, r.updated_at)

\* {...updates, updated_at: new Date().toISOString()}
UpdatePatch(call, r) ==
    Row(r.id, call.form[1], r.created_by, call.form[1].is_active, call.stamp)

handleUpdateCommandExec(k, ok) ==
    /\ Pending(k, "handleUpdateCommand", "req")
    /\ LET call == calls[k]
           hit == {r \in tblCommands : r.id = call.id}
       IN IF ok /\ hit # {}
          THEN /\ tblCommands' = UpdateById(tblCommands, call.id, LAMBDA r : UpdatePatch(call, r))
               /\ Respond(k, [ok |-> TRUE,
                              rows |-> <<UpdatePatch(call, CHOOSE r \in hit : TRUE)>>], "resp")
          ELSE \* a failed call, or single() finding no row
               /\ Respond(k, NoResult, "resp")
               /\ UNCHANGED tblCommands
    /\ UNCHANGED <<tblUsers, nextId, sessionVars, route, filterVars, catalogVars, adminVars, clock>>

UpdatedLocallyAppending(call) == Append(call.snap, call.res.rows[1])

\* commands.map(cmd => cmd.id === id ? data : cmd)
UpdatedLocally(call) ==
    [i \in 1..Len(call.snap) |->
        IF call.snap[i].id = call.id THEN call.res.rows[1] ELSE call.snap[i]]

handleUpdateCommandResume(k) ==
    /\ UNCHANGED created
    /\ Pending(k, "handleUpdateCommand", "resp")
    /\ Finish(k)
    /\ IF calls[k].live /\ calls[k].res.ok
       THEN /\ SetCommands(UpdatedLocally(calls[k]))
            /\ editingCommand' = <<>>
       ELSE UNCHANGED <<commands, filteredCommands, editingCommand>>
    /\ UNCHANGED <<storeVars, sessionVars, route, filterVars, loading, showAddModal,
                   adminVars, clock>>

\* The delete control of a listed command, answered by confirm().
handleDeleteCommand(i, confirmed) ==
    /\ CatalogReady /\ ~ModalOpen
    /\ i \in 1..Len(filteredCommands)
    /\ CanManage(filteredCommands[i])
    /\ IF ~confirmed
       THEN /\ lastAction' = Step("return", "handleDeleteCommand", 0, <<Answer(confirmed)>>)
            /\ UNCHANGED <<calls, clock>>
       ELSE /\ CanIssue
            /\ Issue(Call("handleDeleteCommand", filteredCommands[i].id, NoUser, FALSE,
                          <<>>, commands, user, 0), <<Answer(confirmed)>>)
    /\ UNCHANGED <<storeVars, sessionVars, route, filterVars, catalogVars, adminVars>>

SoftDeletedRemovingRow(tbl, id) == DeleteById(tbl, id)

\* update({ is_active: false }).eq('id', id)
SoftDeleted(tbl, id) == UpdateById(tbl, id, LAMBDA r : [r EXCEPT !.is_active = FALSE])

handleDeleteCommandExec(k, ok) ==
    /\ Pending(k, "handleDeleteCommand", "req")
    /\ IF ok
       THEN /\ tblCommands' = SoftDeleted(tblCommands, calls[k].id)
            /\ Respond(k, [ok |-> TRUE, rows |-> <<>>], "resp")
       ELSE /\ Respond(k, NoResult, "resp")
            /\ UNCHANGED tblCommands
    /\ UNCHANGED <<tblUsers, nextId, sessionVars, route, filterVars, catalogVars, adminVars, clock>>

\* commands.filter(cmd => cmd.id !== id)
RemovedLocally(call) == SelectSeq(call.snap, LAMBDA cmd : cmd.id # call.id)

handleDeleteCommandResumeIgnoringError(k) ==
    /\ UNCHANGED created
    /\ Pending(k, "handleDeleteCommand", "resp")
    /\ Finish(k)
    /\ IF calls[k].live
       THEN SetCommands(RemovedLocally(calls[k]))
       ELSE UNCHANGED <<commands, filteredCommands>>
    /\ UNCHANGED <<storeVars, sessionVars, route, filterVars, loading, showAddModal,
                   editingCommand, adminVars, clock>>

handleDeleteCommandResume(k) ==
    /\ UNCHANGED created
    /\ Pending(k, "handleDeleteCommand", "resp")
    /\ Finish(k)
    /\ IF calls[k].live /\ calls[k].res.ok
       THEN SetCommands(RemovedLocally(calls[k]))
       ELSE UNCHANGED <<commands, filteredCommands>>
    /\ UNCHANGED <<storeVars, sessionVars, route, filterVars, loading, showAddModal,
                   editingCommand, adminVars, clock>>

\* ---------------------------------------------------------------- administration view
AdminReady == route = "admin" /\ ~adminLoading

Count(list, Test(_)) == Cardinality({i \in 1..Len(list) : Test(list[i])})

\* the counts fetchData derives from the fetched rows
FetchedStats(usersData, commandsData) ==
    [totalUsers |-> Len(usersData),
     totalCommands |-> Len(commandsData),
     activeCommands |-> Count(commandsData, LAMBDA cmd : cmd.is_active),
     adminUsers |-> Count(usersData, LAMBDA u : u.is_admin)]

fetchDataExecUsers(k, ok) ==
    /\ Pending(k, "fetchData", "req")
    /\ Respond(k, IF ok THEN [ok |-> TRUE, rows |-> SelectUsers(tblUsers)] ELSE NoResult, "resp")
    /\ UNCHANGED <<storeVars, sessionVars, route, filterVars, catalogVars, adminVars, clock>>

fetchDataResumeUsersGoingOn(k) ==
    /\ Pending(k, "fetchData", "resp")
    /\ lastAction' = NoInput
    /\ calls' = [calls EXCEPT ![k] = [@ EXCEPT !.pc = "req2", !.udata = calls[k].res.rows,
                                               !.res = NoResult]]
    /\ UNCHANGED <<storeVars, sessionVars, route, filterVars, catalogVars, adminVars, clock>>

\* after the users query: throw, or issue the commands query
fetchDataResumeUsers(k) ==
    /\ Pending(k, "fetchData", "resp")
    /\ lastAction' = IF calls[k].live /\ ~calls[k].res.ok
                     THEN Step("caught", "fetchData", 0, <<>>)
                     ELSE NoInput
    /\ IF calls[k].res.ok
       THEN /\ calls' = [calls EXCEPT ![k] = [@ EXCEPT !.pc = "req2", !.udata = calls[k].res.rows,
                                                       !.res = NoResult]]
            /\ UNCHANGED adminLoading
       ELSE /\ calls' = RemoveAt(calls, k)
            /\ adminLoading' = IF calls[k].live THEN FALSE ELSE adminLoading
    /\ UNCHANGED <<storeVars, sessionVars, route, filterVars, catalogVars, users, adminCommands,
                   stats, clock>>

fetchDataExecCommands(k, ok) ==
    /\ Pending(k, "fetchData", "req2")
    /\ Respond(k, IF ok THEN [ok |-> TRUE, rows |-> SelectAllCommands(tblCommands)]
                        ELSE NoResult, "resp2")
    /\ UNCHANGED <<storeVars, sessionVars, route, filterVars, catalogVars, adminVars, clock>>

fetchDataResumeCommands(k) ==
    /\ Pending(k, "fetchData", "resp2")
    /\ Finish(k)
    /\ IF calls[k].live
       THEN /\ IF calls[k].res.ok
               THEN /\ users' = calls[k].udata
                    /\ adminCommands' = calls[k].res.rows
                    /\ stats' = FetchedStats(calls[k].udata, calls[k].res.rows)
               ELSE UNCHANGED <<users, adminCommands, stats>>
            /\ adminLoading' = FALSE
       ELSE UNCHANGED adminVars
    /\ UNCHANGED <<storeVars, sessionVars, route, filterVars, catalogVars, clock>>

toggleUserAdminOfOthers(i) ==
    /\ AdminReady
    /\ i \in 1..Len(users)
    /\ users[i].id # user
    /\ CanIssue
    /\ Issue(Call("toggleUserAdmin", 0, users[i].id, users[i].is_admin, <<>>, users, user, 0), <<>>)
    /\ UNCHANGED <<storeVars, sessionVars, route, filterVars, catalogVars, adminVars>>

\* The role button of a listed user: toggleUserAdmin(user.id, user.is_admin).
toggleUserAdmin(i) ==
    /\ AdminReady
    /\ i \in 1..Len(users)
    /\ CanIssue
    /\ Issue(Call("toggleUserAdmin", 0, users[i].id, users[i].is_admin, <<>>, users, user, 0), <<>>)
    /\ UNCHANGED <<storeVars, sessionVars, route, filterVars, catalogVars, adminVars>>

AdminFlagKept(tbl, call) == [tbl EXCEPT ![call.uid] = call.flag]

\* update({ is_admin: !isAdmin, ... }).eq('id', userId)
AdminFlagSet(tbl, call) == [tbl EXCEPT ![call.uid] = ~call.flag]

toggleUserAdminExec(k, ok) ==
    /\ Pending(k, "toggleUserAdmin", "req")
    /\ IF ok
       THEN /\ tblUsers' = AdminFlagSet(tblUsers, calls[k])
            /\ Respond(k, [ok |-> TRUE, rows |-> <<>>], "resp")
       ELSE /\ Respond(k, NoResult, "resp")
            /\ UNCHANGED tblUsers
    /\ UNCHANGED <<tblCommands, nextId, sessionVars, route, filterVars, catalogVars, adminVars, clock>>

\* users.map(user => user.id === userId ? { ...user, is_admin: !isAdmin } : user)
UsersToggledLocally(call) ==
    [i \in 1..Len(call.snap) |->
        IF call.snap[i].id = call.uid THEN [call.snap[i] EXCEPT !.is_admin = ~call.flag]
                                      ELSE call.snap[i]]

toggleUserAdminResume(k) ==
    /\ Pending(k, "toggleUserAdmin", "resp")
    /\ Finish(k)
    /\ IF calls[k].live /\ calls[k].res.ok
       THEN users' = UsersToggledLocally(calls[k])
       ELSE UNCHANGED users
    /\ UNCHANGED <<storeVars, sessionVars, route, filterVars, catalogVars, adminCommands, stats,
                   adminLoading, clock>>

deleteCommandUnconfirmed(i, confirmed) ==
    /\ AdminReady
    /\ i \in 1..Len(adminCommands)
    /\ CanIssue
    /\ Issue(Call("deleteCommand", adminCommands[i].id, NoUser, FALSE, <<>>,
                  adminCommands, user, 0), <<Answer(confirmed)>>)
    /\ UNCHANGED <<storeVars, sessionVars, route, filterVars, catalogVars, adminVars>>

\* The delete button of a listed command, answered by confirm().
deleteCommand(i, confirmed) ==
    /\ AdminReady
    /\ i \in 1..Len(adminCommands)
    /\ IF ~confirmed
       THEN /\ lastAction' = Step("return", "deleteCommand", 0, <<Answer(confirmed)>>)
            /\ UNCHANGED <<calls, clock>>
       ELSE /\ CanIssue
            /\ Issue(Call("deleteCommand", adminCommands[i].id, NoUser, FALSE, <<>>,
                          adminCommands, user, 0), <<Answer(confirmed)>>)
    /\ UNCHANGED <<storeVars, sessionVars, route, filterVars, catalogVars, adminVars>>

DeactivatedInstead(tbl, id) == UpdateById(tbl, id, LAMBDA r : [r EXCEPT !.is_active = FALSE])

\* delete().eq('id', commandId)
HardDeleted(tbl, id) == DeleteById(tbl, id)

deleteCommandExec(k, ok) ==
    /\ Pending(k, "deleteCommand", "req")
    /\ IF ok
       THEN /\ tblCommands' = HardDeleted(tblCommands, calls[k].id)
            /\ Respond(k, [ok |-> TRUE, rows |-> <<>>], "resp")
       ELSE /\ Respond(k, NoResult, "resp")
            /\ UNCHANGED tblCommands
    /\ UNCHANGED <<tblUsers, nextId, sessionVars, route, filterVars, catalogVars, adminVars, clock>>

WasActiveAlways(call) == 1

\* commands.find(cmd => cmd.id === commandId)?.is_active ? 1 : 0
WasActive(call) == IF \E i \in 1..Len(call.snap) : call.snap[i].id = call.id /\ call.snap[i].is_active
                   THEN 1 ELSE 0

deleteCommandResume(k) ==
    /\ Pending(k, "deleteCommand", "resp")
    /\ Finish(k)
    /\ IF calls[k].live /\ calls[k].res.ok
       THEN /\ adminCommands' = RemovedLocally(calls[k])
            /\ stats' = [stats EXCEPT !.totalCommands = @ - 1,
                                      !.activeCommands = @ - WasActive(calls[k])]
       ELSE UNCHANGED <<adminCommands, stats>>
    /\ UNCHANGED <<storeVars, sessionVars, route, filterVars, catalogVars, users, adminLoading, clock>>

toggleCommandStatusOptimistic(i) ==
    /\ AdminReady
    /\ i \in 1..Len(adminCommands)
    /\ CanIssue
    /\ Issue(Call("toggleCommandStatus", adminCommands[i].id, NoUser, adminCommands[i].is_active,
                  <<>>, adminCommands, user, clock), <<>>)
    /\ adminCommands' = [adminCommands EXCEPT ![i].is_active = ~adminCommands[i].is_active]
    /\ UNCHANGED <<storeVars, sessionVars, route, filterVars, catalogVars, users, stats,
                   adminLoading>>

\* The status button of a listed command: toggleCommandStatus(command.id, command.is_active).
toggleCommandStatus(i) ==
    /\ AdminReady
    /\ i \in 1..Len(adminCommands)
    /\ CanIssue
    /\ Issue(Call("toggleCommandStatus", adminCommands[i].id, NoUser, adminCommands[i].is_active,
                  <<>>, adminCommands, user, clock), <<>>)
    /\ UNCHANGED <<storeVars, sessionVars, route, filterVars, catalogVars, adminVars>>

\* update({ is_active: !isActive, updated_at: ... }).eq('id', commandId)
StatusKept(tbl, call) == tbl

StatusSet(tbl, call) ==
    UpdateById(tbl, call.id, LAMBDA r : [r EXCEPT !.is_active = ~call.flag, !.updated_at = call.stamp])

toggleCommandStatusExec(k, ok) ==
    /\ Pending(k, "toggleCommandStatus", "req")
    /\ IF ok
       THEN /\ tblCommands' = StatusSet(tblCommands, calls[k])
            /\ Respond(k, [ok |-> TRUE, rows |-> <<>>], "resp")
       ELSE /\ Respond(k, NoResult, "resp")
            /\ UNCHANGED tblCommands
    /\ UNCHANGED <<tblUsers, nextId, sessionVars, route, filterVars, catalogVars, adminVars, clock>>

StatusToggledInCurrentList(call) ==
    [i \in 1..Len(adminCommands) |->
        IF adminCommands[i].id = call.id THEN [adminCommands[i] EXCEPT !.is_active = ~call.flag]
                                         ELSE adminCommands[i]]

\* commands.map(cmd => cmd.id === commandId ? { ...cmd, is_active: !isActive } : cmd)
StatusToggledLocally(call) ==
    [i \in 1..Len(call.snap) |->
        IF call.snap[i].id = call.id THEN [call.snap[i] EXCEPT !.is_active = ~call.flag]
                                     ELSE call.snap[i]]

ActiveDeltaAlwaysDown(call) == -1

\* isActive ? -1 : 1
ActiveDelta(call) == IF call.flag THEN -1 ELSE 1

toggleCommandStatusResume(k) ==
    /\ Pending(k, "toggleCommandStatus", "resp")
    /\ Finish(k)
    /\ IF calls[k].live /\ calls[k].res.ok
       THEN /\ adminCommands' = StatusToggledLocally(calls[k])
            /\ stats' = [stats EXCEPT !.activeCommands = @ + ActiveDelta(calls[k])]
       ELSE UNCHANGED <<adminCommands, stats>>
    /\ UNCHANGED <<storeVars, sessionVars, route, filterVars, catalogVars, users, adminLoading, clock>>

\* What the operator can answer to prompt(): a typed text, or Cancel.
PromptCancelled == "(cancel)"
PromptAnswers == {"RESET", "reset", PromptCancelled}

\* The dialogs resetDatabase shows and their answers: the second confirm() is
\* shown only after a confirmed first one, the prompt() only after both.
ResetAnswers ==
    {<<"no">>, <<"yes", "no">>} \cup {<<"yes", "yes", typed>> : typed \in PromptAnswers}

ResetConfirmedIgnoringCase(answers) ==
    Len(answers) = 3 /\ answers[1] = "yes" /\ answers[2] = "yes"
                     /\ answers[3] \in {"RESET", "reset"}

\* confirm(...) && confirm(...) && prompt(...) === 'RESET'
ResetConfirmed(answers) ==
    Len(answers) = 3 /\ answers[1] = "yes" /\ answers[2] = "yes" /\ answers[3] = "RESET"

\* The reset button, answered by up to two confirm() dialogs and a prompt().
resetDatabase(answers) ==
    /\ AdminReady
    /\ IF ~ResetConfirmed(answers)
       THEN /\ lastAction' = Step("return", "resetDatabase", 0, answers)
            /\ UNCHANGED <<calls, clock>>
       ELSE /\ CanIssue
            /\ calls' = Append(calls, Call("resetDatabase", 0, NoUser, FALSE, <<>>, <<>>,
                                           user, 0))
            /\ lastAction' = Step("trigger", "resetDatabase", Len(calls) + 1, answers)
            /\ clock' = clock + 1
    /\ UNCHANGED <<storeVars, sessionVars, route, filterVars, catalogVars, adminVars>>

resetDatabaseExecCommands(k, ok) ==
    /\ Pending(k, "resetDatabase", "req")
    /\ IF ok
       THEN /\ tblCommands' = DeleteAllCommands(tblCommands)
            /\ Respond(k, [ok |-> TRUE, rows |-> <<>>], "resp")
       ELSE /\ Respond(k, NoResult, "resp")
            /\ UNCHANGED tblCommands
    /\ UNCHANGED <<tblUsers, nextId, sessionVars, route, filterVars, catalogVars, adminVars, clock>>

resetDatabaseResumeCommandsGoingOn(k) ==
    /\ Pending(k, "resetDatabase", "resp")
    /\ lastAction' = NoInput
    /\ calls' = [calls EXCEPT ![k] = [@ EXCEPT !.pc = "req2", !.res = NoResult]]
    /\ UNCHANGED <<storeVars, sessionVars, route, filterVars, catalogVars, adminVars, clock>>

\* after the delete: throw, or issue the user reset
resetDatabaseResumeCommands(k) ==
    /\ Pending(k, "resetDatabase", "resp")
    /\ lastAction' = IF calls[k].live /\ ~calls[k].res.ok
                     THEN Step("caught", "resetDatabase", 0, <<"delete">>)
                     ELSE NoInput
    /\ calls' = IF calls[k].res.ok
                THEN [calls EXCEPT ![k] = [@ EXCEPT !.pc = "req2", !.res = NoResult]]
                ELSE RemoveAt(calls, k)
    /\ UNCHANGED <<storeVars, sessionVars, route, filterVars, catalogVars, adminVars, clock>>

resetDatabaseExecUsers(k, ok) ==
    /\ Pending(k, "resetDatabase", "req2")
    /\ IF ok
       THEN /\ tblUsers' = ClearAdminExcept(tblUsers, calls[k].actor)
            /\ Respond(k, [ok |-> TRUE, rows |-> <<>>], "resp2")
       ELSE /\ Respond(k, NoResult, "resp2")
            /\ UNCHANGED tblUsers
    /\ UNCHANGED <<tblCommands, nextId, sessionVars, route, filterVars, catalogVars, adminVars, clock>>

resetDatabaseResumeUsersRefetching(k) ==
    /\ Pending(k, "resetDatabase", "resp2")
    /\ lastAction' = NoInput
    /\ calls' = IF calls[k].live
                THEN [calls EXCEPT ![k] =
                        Call("fetchData", 0, NoUser, FALSE, <<>>, <<>>, NoUser, 0)]
                ELSE RemoveAt(calls, k)
    /\ UNCHANGED <<storeVars, sessionVars, route, filterVars, catalogVars, adminVars, clock>>

\* after the user reset: throw, or run fetchData() without awaiting it
resetDatabaseResumeUsers(k) ==
    /\ Pending(k, "resetDatabase", "resp2")
    /\ lastAction' = IF calls[k].live /\ ~calls[k].res.ok
                     THEN Step("caught", "resetDatabase", 0, <<"update">>)
                     ELSE NoInput
    /\ calls' = IF calls[k].res.ok /\ calls[k].live
                THEN [calls EXCEPT ![k] =
                        Call("fetchData", 0, NoUser, FALSE, <<>>, <<>>, NoUser, 0)]
                ELSE RemoveAt(calls, k)
    /\ UNCHANGED <<storeVars, sessionVars, route, filterVars, catalogVars, adminVars, clock>>

\* ---------------------------------------------------------------- specification
Next ==
    \/ \E u \in Users : signIn(u)
    \/ signOut
    \/ navigateHome
    \/ mountCommands
    \/ mountAdmin
    \/ \E k \in 1..MaxInFlight, ok \in BOOLEAN : fetchCommandsExec(k, ok)
    \/ \E k \in 1..MaxInFlight : fetchCommandsResume(k)
    \/ openAddModal
    \/ \E i \in 1..MaxCommands : startEdit(i)
    \/ closeModal
    \/ \E form \in FormInputs : handleAddCommand(form)
    \/ \E k \in 1..MaxInFlight, ok \in BOOLEAN : handleAddCommandExec(k, ok)
    \/ \E k \in 1..MaxInFlight : handleAddCommandResume(k)
    \/ \E form \in FormInputs : handleUpdateCommand(form)
    \/ \E k \in 1..MaxInFlight, ok \in BOOLEAN : handleUpdateCommandExec(k, ok)
    \/ \E k \in 1..MaxInFlight : handleUpdateCommandResume(k)
    \/ \E i \in 1..MaxCommands, confirmed \in BOOLEAN : handleDeleteCommand(i, confirmed)
    \/ \E k \in 1..MaxInFlight, ok \in BOOLEAN : handleDeleteCommandExec(k, ok)
    \/ \E k \in 1..MaxInFlight : handleDeleteCommandResume(k)
    \/ \E k \in 1..MaxInFlight, ok \in BOOLEAN : fetchDataExecUsers(k, ok)
    \/ \E k \in 1..MaxInFlight : fetchDataResumeUsers(k)
    \/ \E k \in 1..MaxInFlight, ok \in BOOLEAN : fetchDataExecCommands(k, ok)
    \/ \E k \in 1..MaxInFlight : fetchDataResumeCommands(k)
    \/ \E i \in 1..Cardinality(Users) : toggleUserAdmin(i)
    \/ \E k \in 1..MaxInFlight, ok \in BOOLEAN : toggleUserAdminExec(k, ok)
    \/ \E k \in 1..MaxInFlight : toggleUserAdminResume(k)
    \/ \E i \in 1..MaxCommands, confirmed \in BOOLEAN : deleteCommand(i, confirmed)
    \/ \E k \in 1..MaxInFlight, ok \in BOOLEAN : deleteCommandExec(k, ok)
    \/ \E k \in 1..MaxInFlight : deleteCommandResume(k)
    \/ \E i \in 1..MaxCommands : toggleCommandStatus(i)
    \/ \E k \in 1..MaxInFlight, ok \in BOOLEAN : toggleCommandStatusExec(k, ok)
    \/ \E k \in 1..MaxInFlight : toggleCommandStatusResume(k)
    \/ \E answers \in ResetAnswers : resetDatabase(answers)
    \/ \E k \in 1..MaxInFlight, ok \in BOOLEAN : resetDatabaseExecCommands(k, ok)
    \/ \E k \in 1..MaxInFlight : resetDatabaseResumeCommands(k)
    \/ \E k \in 1..MaxInFlight, ok \in BOOLEAN : resetDatabaseExecUsers(k, ok)
    \/ \E k \in 1..MaxInFlight : resetDatabaseResumeUsers(k)

Spec == Init /\ [][Next]_vars

\* ---------------------------------------------------------------- claims on the filter
ContainsIgnoringCase(text, term) ==
    \E off \in 0..(Len(text) - Len(term)) :
        \A j \in 1..Len(term) : Lower(text[off + j]) = Lower(term[j])

Wanted(cmd) ==
    /\ selectedCategory = "all" \/ cmd.category = selectedCategory
    /\ \/ searchTerm = <<>>
       \/ ContainsIgnoringCase(cmd.name, searchTerm)
       \/ ContainsIgnoringCase(cmd.description, searchTerm)
       \/ ContainsIgnoringCase(cmd.command, searchTerm)

KeptPositions == {i \in 1..Len(commands) : Wanted(commands[i])}

\* C1: filteredCommands holds exactly the commands of the list whose category
\* matches the selector (or the selector is "all") and whose name, description
\* or command text contains the search term case-insensitively (or the term is
\* empty), in the order of the list; with an empty term it is the
\* category-filtered list.
C1_FilterSelectsExactlyMatching ==
    /\ Len(filteredCommands) = Cardinality(KeptPositions)
    /\ \A i \in KeptPositions :
          filteredCommands[Cardinality({j \in KeptPositions : j <= i})] = commands[i]
    /\ searchTerm = <<>> =>
          filteredCommands =
             SelectSeq(commands,
                       LAMBDA cmd : selectedCategory = "all" \/ cmd.category = selectedCategory)

C1_Witness ==
    /\ lastAction.op \in {"setSearchTerm", "setSelectedCategory"}
    /\ searchTerm = <<"A", "B">> /\ selectedCategory = "network"
    /\ Len(commands) = 2 /\ Len(filteredCommands) = 1
    /\ filteredCommands[1] = commands[2]

\* C2: filtering by query and category together gives the same list as
\* filtering by query alone and then by category alone.
C2_FilterCommutes ==
    filteredCommands =
       filterCommands(filterCommands(commands, searchTerm, "all"), <<>>, selectedCategory)

C2_Witness ==
    /\ lastAction.op \in {"setSearchTerm", "setSelectedCategory"}
    /\ searchTerm # <<>> /\ selectedCategory # "all"
    /\ Len(filteredCommands) < Len(filterCommands(commands, searchTerm, "all"))
    /\ Len(filteredCommands) < Len(filterCommands(commands, <<>>, selectedCategory))

\* C11 (as stated): with three commands tagged system, network, system and the
\* selector on "system", filteredCommands is the two system-tagged commands
\* whatever the search term.
C11_SystemSelectorIgnoresQuery ==
    selectedCategory = "system" => filteredCommands = <<commands[1], commands[3]>>

\* C11 (amended): with three commands tagged system, network, system and the
\* selector on "system", filteredCommands holds, in list order, those of the two
\* system-tagged commands whose name, description or command text contains the
\* search term case-insensitively: both when the term is empty, and never the
\* network-tagged command.
C11_SystemSelectorShowsMatchingSystemCommands ==
    selectedCategory = "system" =>
       /\ filteredCommands =
             SelectSeq(<<commands[1], commands[3]>>,
                       LAMBDA cmd : \/ searchTerm = <<>>
                                    \/ ContainsIgnoringCase(cmd.name, searchTerm)
                                    \/ ContainsIgnoringCase(cmd.description, searchTerm)
                                    \/ ContainsIgnoringCase(cmd.command, searchTerm))
       /\ searchTerm = <<>> => filteredCommands = <<commands[1], commands[3]>>
       /\ \A i \in 1..Len(filteredCommands) : filteredCommands[i] # commands[2]

\* The query matches only the description of the third command: one of the two
\* system-tagged commands is shown.
C11_Witness ==
    /\ lastAction.op \in {"setSearchTerm", "setSelectedCategory"}
    /\ Len(commands) = 3 /\ selectedCategory = "system" /\ searchTerm = <<"B">>
    /\ filteredCommands = <<commands[3]>>
    /\ ~ContainsIgnoringCase(commands[3].name, searchTerm)

\* ---------------------------------------------------------------- claims on the views
Ids(rows) == {r.id : r \in rows}
ListIds(list) == {list[i].id : i \in 1..Len(list)}

\* In this step the store executed the remote call handler k was waiting for at pc.
Executed(k, op, pc) ==
    /\ route' = route
    /\ k \in 1..Len(calls) /\ Len(calls') = Len(calls)
    /\ calls[k].op = op /\ calls[k].pc = pc
    /\ calls'[k] # calls[k]
    /\ calls'[k].op = op /\ calls'[k].pc = (IF pc = "req" THEN "resp" ELSE "resp2")

\* In this step handler k, still mounted, ran its continuation on the successful
\* response it was waiting for at pc.
Resumed(k, op, pc) ==
    /\ route' = route
    /\ k \in 1..Len(calls)
    /\ calls[k].op = op /\ calls[k].pc = pc
    /\ calls[k].res.ok /\ calls[k].live
    /\ \/ calls' = RemoveAt(calls, k)
       \/ Len(calls') = Len(calls) /\ calls'[k] # calls[k]

\* In this step handler k, still mounted, ran its continuation on the response
\* (successful or failed) it was waiting for at pc.
Returned(k, op, pc) ==
    /\ route' = route
    /\ k \in 1..Len(calls)
    /\ calls[k].op = op /\ calls[k].pc = pc /\ calls[k].live
    /\ \/ calls' = RemoveAt(calls, k)
       \/ Len(calls') = Len(calls) /\ calls'[k] # calls[k]

\* C3: a confirmed, successful catalog soft-delete of command c leaves the row
\* of c in the store with is_active = FALSE, so the active-only fetch no longer
\* returns c while the unfiltered fetch of the administration view does; and
\* when its response arrives c is absent from the catalog's local list.
C3_SoftDeleteHidesButKeepsRow ==
    [][\A k \in 1..Len(calls) :
         /\ ( /\ Executed(k, "handleDeleteCommand", "req") /\ calls'[k].res.ok
              /\ calls[k].id \in Ids(tblCommands) )
            => /\ \E r \in tblCommands' : r.id = calls[k].id /\ ~r.is_active
               /\ Ids(tblCommands') = Ids(tblCommands)
               /\ calls[k].id \notin ListIds(SelectActiveCommands(tblCommands'))
               /\ \E i \in 1..Len(SelectAllCommands(tblCommands')) :
                     /\ SelectAllCommands(tblCommands')[i].id = calls[k].id
                     /\ ~SelectAllCommands(tblCommands')[i].is_active
         /\ Resumed(k, "handleDeleteCommand", "resp")
            => calls[k].id \notin ListIds(commands')
      ]_vars

\* The administration view lists, inactive and never touched by an update, the
\* command the catalog soft-deleted.
C3_Witness ==
    /\ route = "admin" /\ ~adminLoading /\ calls = <<>>
    /\ \E i \in 1..Len(adminCommands) :
          /\ adminCommands[i].id = 1 /\ ~adminCommands[i].is_active
          /\ adminCommands[i].updated_at = 0
    /\ \E r \in tblCommands : r.id = 1 /\ ~r.is_active

\* C4: a confirmed, successful administration hard-delete of command c removes
\* the row of c from the store, so neither fetch returns it, and a removed row
\* never comes back; when its response arrives c is absent from the
\* administration view's local command list.
C4_HardDeleteRemovesEverywhere ==
    [][/\ \A k \in 1..Len(calls) :
            /\ (Executed(k, "deleteCommand", "req") /\ calls'[k].res.ok)
               => /\ calls[k].id \notin Ids(tblCommands')
                  /\ calls[k].id \notin ListIds(SelectActiveCommands(tblCommands'))
                  /\ calls[k].id \notin ListIds(SelectAllCommands(tblCommands'))
            /\ Resumed(k, "deleteCommand", "resp")
               => calls[k].id \notin ListIds(adminCommands')
       /\ \A id \in 1..(nextId - 1) :
            id \notin Ids(tblCommands) => id \notin Ids(tblCommands')
      ]_vars

C4_Witness ==
    /\ route = "admin" /\ ~adminLoading /\ calls = <<>>
    /\ Ids(tblCommands) = {2} /\ nextId = 3
    /\ ListIds(adminCommands) = {2}
    /\ stats.totalCommands = 1

C6_ResetClearsCommandsAndOtherAdmins ==
    [][/\ (lastAction'.step = "trigger" /\ lastAction'.op = "resetDatabase")
          => /\ user # NoUser
             /\ calls'[lastAction'.k].actor = user
       /\ \A k \in 1..Len(calls) :
            /\ (Executed(k, "resetDatabase", "req") /\ calls'[k].res.ok)
               => tblCommands' = {}
            /\ (Executed(k, "resetDatabase", "req2") /\ calls'[k].res.ok)
               => /\ \A u \in Users \ {calls[k].actor} : ~tblUsers'[u]
                  /\ tblUsers'[calls[k].actor] = tblUsers[calls[k].actor]
      ]_vars

\* Both calls of a reset have succeeded: no command is left, and u2, whom the
\* local list still shows as administrator, has lost the flag while the
\* initiator u1 kept it.
C6_Witness ==
    /\ route = "admin"
    /\ \E k \in 1..Len(calls) :
          /\ calls[k].op = "resetDatabase" /\ calls[k].pc = "resp2" /\ calls[k].res.ok
          /\ calls[k].actor = "u1"
    /\ tblCommands = {}
    /\ tblUsers = [u \in Users |-> u = "u1"]
    /\ \E i \in 1..Len(users) : users[i].id = "u2" /\ users[i].is_admin
    /\ adminCommands # <<>>

\* C7: unless both confirmations are accepted and exactly "RESET" is typed,
\* resetDatabase returns without issuing a remote call and changes neither the
\* store nor the local lists nor the stats.
C7_UnconfirmedResetDoesNothing ==
    [][( /\ lastAction'.step \in {"trigger", "return"} /\ lastAction'.op = "resetDatabase"
         /\ lastAction'.input # <<"yes", "yes", "RESET">> )
          => /\ lastAction'.step = "return"
             /\ UNCHANGED <<storeVars, sessionVars, route, filterVars, catalogVars, adminVars,
                            calls, clock>>
      ]_vars

C7_Witness ==
    /\ lastAction = Step("return", "resetDatabase", 0, <<"yes", "yes", "reset">>)
    /\ tblCommands # {} /\ adminCommands # <<>>
    /\ stats.totalCommands > 0

FlagShown(list, uid) == \E i \in 1..Len(list) : list[i].id = uid /\ list[i].is_admin

\* C8 (as stated): one successful toggleUserAdmin on user u negates the previous
\* value of u's admin flag in the store and in the local users list and changes
\* no other user.
C8_ToggleNegatesPreviousValue ==
    [][\A k \in 1..Len(calls) :
         /\ (Executed(k, "toggleUserAdmin", "req") /\ calls'[k].res.ok)
            => tblUsers' = [tblUsers EXCEPT ![calls[k].uid] = ~tblUsers[calls[k].uid]]
         /\ Resumed(k, "toggleUserAdmin", "resp")
            => users' = [i \in 1..Len(users) |->
                           IF users[i].id = calls[k].uid
                           THEN [users[i] EXCEPT !.is_admin = ~users[i].is_admin]
                           ELSE users[i]]
      ]_vars

\* C8 (amended): toggleUserAdmin is called with the flag the local list shows for
\* u; one successful call sets u's flag in the store to the negation of that
\* shown flag, changing no other profile, and sets the local list to the list
\* captured at the trigger with u's flag negated; toggling u once more from the
\* resulting list gives back the captured list and sets the store's flag to the
\* value first shown.
C8_ToggleNegatesShownFlag ==
    [][/\ (lastAction'.step = "trigger" /\ lastAction'.op = "toggleUserAdmin")
          => LET call == calls'[lastAction'.k]
             IN /\ call.snap = users
                /\ call.flag = FlagShown(users, call.uid)
       /\ \A k \in 1..Len(calls) :
            /\ (Executed(k, "toggleUserAdmin", "req") /\ calls'[k].res.ok)
               => /\ tblUsers' = [tblUsers EXCEPT ![calls[k].uid] = ~calls[k].flag]
                  /\ tblCommands' = tblCommands
            /\ Resumed(k, "toggleUserAdmin", "resp")
               => LET call == calls[k]
                      again == [call EXCEPT !.snap = users',
                                            !.flag = FlagShown(users', call.uid)]
                  IN /\ users' = [i \in 1..Len(call.snap) |->
                                    IF call.snap[i].id = call.uid
                                    THEN [call.snap[i] EXCEPT !.is_admin = ~call.flag]
                                    ELSE call.snap[i]]
                     /\ FlagShown(users', call.uid) = ~call.flag
                     /\ UsersToggledLocally(again) = call.snap
                     /\ AdminFlagSet(tblUsers, again)[call.uid] = call.flag
      ]_vars

\* u2, no administrator at the start, has been made one by the single handler
\* run since the view was mounted.
C8_Witness ==
    /\ route = "admin" /\ ~adminLoading /\ calls = <<>> /\ clock = 2
    /\ tblUsers["u2"]
    /\ FlagShown(users, "u2")

\* C9: when a toggleUserAdmin has succeeded, stats.adminUsers equals the number
\* of users of the local list whose admin flag is set.
C9_AdminCountFollowsToggle ==
    [][\A k \in 1..Len(calls) :
         Resumed(k, "toggleUserAdmin", "resp")
            => stats'.adminUsers = Count(users', LAMBDA u : u.is_admin)
      ]_vars

\* C10: when fetchData has succeeded the four counts are those of the fetched
\* rows; a successful toggleCommandStatus on a command the list showed active
\* lowers activeCommands by exactly 1, on one it showed inactive raises it by
\* exactly 1, and leaves totalCommands as it was.
C10_StatsCountFetchedRowsAndFollowStatus ==
    [][\A k \in 1..Len(calls) :
         /\ Resumed(k, "fetchData", "resp2")
            => /\ users' = calls[k].udata /\ adminCommands' = calls[k].res.rows
               /\ stats'.totalUsers = Len(users')
               /\ stats'.totalCommands = Len(adminCommands')
               /\ stats'.activeCommands =
                     Cardinality({i \in 1..Len(adminCommands') : adminCommands'[i].is_active})
               /\ stats'.adminUsers = Cardinality({i \in 1..Len(users') : users'[i].is_admin})
         /\ Resumed(k, "toggleCommandStatus", "resp")
            => LET shownActive == \E i \in 1..Len(calls[k].snap) :
                                     /\ calls[k].snap[i].id = calls[k].id
                                     /\ calls[k].snap[i].is_active
               IN /\ stats'.activeCommands =
                        stats.activeCommands + (IF shownActive THEN -1 ELSE 1)
                  /\ stats'.totalCommands = stats.totalCommands
                  /\ stats'.totalUsers = stats.totalUsers
      ]_vars

\* One of two commands was active when fetched; it has been deactivated: 0 of 2.
C10_Witness ==
    /\ route = "admin" /\ ~adminLoading /\ calls = <<>>
    /\ Len(adminCommands) = 2
    /\ \A i \in 1..2 : ~adminCommands[i].is_active
    /\ stats.totalCommands = 2 /\ stats.activeCommands = 0
    /\ \E r \in tblCommands : r.id = 1 /\ ~r.is_active /\ r.updated_at > 0

\* C12: the catalog's mount-time fetchCommands is answered with exactly the
\* active rows of the store, newest first, and changes no row; when it succeeded
\* the local list is the returned rows; when it failed the local list stays
\* empty and no further call is issued; either way loading is FALSE once its
\* response has arrived.
C12_FetchCommandsLoadsActiveOrStaysEmpty ==
    [][\A k \in 1..Len(calls) :
         /\ (Executed(k, "fetchCommands", "req") /\ calls'[k].res.ok)
            => LET rows == calls'[k].res.rows
               IN /\ {rows[i] : i \in 1..Len(rows)} = {r \in tblCommands : r.is_active}
                  /\ \A i, j \in 1..Len(rows) : i < j => rows[i].id > rows[j].id
                  /\ UNCHANGED storeVars
         /\ Returned(k, "fetchCommands", "resp")
            => /\ loading /\ commands = <<>>
               /\ loading' = FALSE
               /\ commands' = (IF calls[k].res.ok THEN calls[k].res.rows ELSE <<>>)
               /\ calls' = RemoveAt(calls, k)
               /\ clock' = clock
               /\ UNCHANGED storeVars
      ]_vars

\* The only call made so far, the mount-time fetch, has failed: the catalog has
\* stopped loading and shows nothing although the store holds an active command.
C12_Witness ==
    /\ route = "commands" /\ ~loading /\ calls = <<>> /\ clock = 1
    /\ commands = <<>> /\ filteredCommands = <<>>
    /\ \E r \in tblCommands : r.is_active

\* The handlers that change a row of the store.
MutatingHandlers ==
    {"handleAddCommand", "handleUpdateCommand", "handleDeleteCommand",
     "toggleUserAdmin", "deleteCommand", "toggleCommandStatus"}

\* C13: when the remote call of a mutating handler of either view has failed,
\* the handler ends without issuing another call and leaves the view as it was:
\* the local lists, the stats, the add dialog and the editing target.
C13_FailureLeavesViewAsItWas ==
    [][\A k \in 1..Len(calls) : \A op \in MutatingHandlers :
         (Returned(k, op, "resp") /\ ~calls[k].res.ok)
            => /\ UNCHANGED <<catalogVars, adminVars, filterVars>>
               /\ calls' = RemoveAt(calls, k)
               /\ clock' = clock
               /\ UNCHANGED storeVars
      ]_vars

\* The update submitted from the edit dialog has failed: no row has been
\* inserted, edited or deactivated, and the edit dialog is still open on the
\* listed command.
C13_Witness ==
    /\ lastAction = Step("caught", "handleUpdateCommand", 0, <<>>)
    /\ route = "commands" /\ ~loading /\ calls = <<>> /\ clock = 2
    /\ editingCommand # <<>> /\ editingCommand[1] = commands[1]
    /\ \A r \in tblCommands : r.updated_at = 0
    /\ \E r \in tblCommands : r.id = 1 /\ r.is_active
    /\ nextId = Cardinality(tblCommands) + 1

DeleteHandlers == {"handleDeleteCommand", "deleteCommand"}

\* C14: the catalog soft-delete and the administration hard-delete issue their
\* remote call only when confirm() returned true, and a new delete call is only
\* ever put in flight that way; when it is declined the handler returns with no
\* call issued and the store and the local state unchanged.
C14_DeletesNeedConfirmation ==
    [][/\ lastAction'.op \in DeleteHandlers /\ lastAction'.step \in {"trigger", "return"}
          => /\ lastAction'.input \in {<<"yes">>, <<"no">>}
             /\ lastAction'.input = <<"yes">>
                   => /\ lastAction'.step = "trigger"
                      /\ calls' = Append(calls, calls'[Len(calls')])
                      /\ calls'[Len(calls')].op = lastAction'.op
                      /\ calls'[Len(calls')].pc = "req"
             /\ lastAction'.input = <<"no">>
                   => /\ lastAction'.step = "return"
                      /\ UNCHANGED <<storeVars, sessionVars, route, filterVars, catalogVars,
                                     adminVars, calls, clock>>
       /\ \A k \in 1..Len(calls') :
            ( /\ calls'[k].op \in DeleteHandlers /\ calls'[k].pc = "req" /\ calls'[k].live
              /\ \A j \in 1..Len(calls) : calls[j] # calls'[k] )
               => lastAction' = Step("trigger", calls'[k].op, k, <<"yes">>)
      ]_vars

\* The hard-delete of a listed command has just been declined: the command is
\* still listed and still in the store, and nothing is in flight.
C14_Witness ==
    /\ lastAction = Step("return", "deleteCommand", 0, <<"no">>)
    /\ route = "admin" /\ ~adminLoading /\ calls = <<>>
    /\ adminCommands # <<>>
    /\ \A i \in 1..Len(adminCommands) : adminCommands[i] \in tblCommands
    /\ stats.totalCommands = Len(adminCommands)

\* The viewer is an administrator or the creator of the command.
OwnerOrAdmin(cmd) == isAdmin \/ (user # NoUser /\ cmd.created_by = user)

\* C15: while the catalog shows its list, the edit control and the delete
\* control of a listed command can be used if and only if the viewer's
\* administrator flag is set or the command's creator is the signed-in identity,
\* so never by an unauthenticated viewer; the edit dialog only ever opens on,
\* and a soft-delete is only ever started on, a listed command for which that
\* holds at that moment.
C15_ControlsOnlyForOwnerOrAdmin ==
    /\ [](\A i \in 1..Len(filteredCommands) :
            (CatalogReady /\ ~ModalOpen)
               => /\ (ENABLED startEdit(i)) <=> OwnerOrAdmin(filteredCommands[i])
                  /\ (ENABLED handleDeleteCommand(i, FALSE)) <=> OwnerOrAdmin(filteredCommands[i])
                  /\ user = NoUser => ~(ENABLED startEdit(i))
                                      /\ ~(ENABLED handleDeleteCommand(i, FALSE)))
    /\ [][/\ (editingCommand = <<>> /\ editingCommand' # <<>>)
             => \E i \in 1..Len(filteredCommands) :
                   /\ filteredCommands[i] = editingCommand'[1]
                   /\ OwnerOrAdmin(filteredCommands[i])
          /\ (lastAction'.step = "trigger" /\ lastAction'.op = "handleDeleteCommand")
             => \E i \in 1..Len(filteredCommands) :
                   /\ filteredCommands[i].id = calls'[lastAction'.k].id
                   /\ OwnerOrAdmin(filteredCommands[i])
          /\ (lastAction'.step = "return" /\ lastAction'.op = "handleDeleteCommand")
             => \E i \in 1..Len(filteredCommands) : OwnerOrAdmin(filteredCommands[i])
         ]_vars

\* u2, no administrator, is editing the command u2 created while the list also
\* shows a command of u1.
C15_Witness ==
    /\ route = "commands" /\ ~loading
    /\ user = "u2" /\ ~isAdmin
    /\ editingCommand # <<>> /\ editingCommand[1].created_by = "u2"
    /\ \E i \in 1..Len(filteredCommands) : filteredCommands[i].created_by = "u1"

\* The store row with the given id.
RowOf(tbl, id) == CHOOSE r \in tbl : r.id = id

\* What a successful update of call k does to the store: only the row with the
\* call's id changes; it takes the submitted fields and the time the handler
\* read, keeps its id and creator, and is the row returned.
UpdateExecutedOnOneRow(k) ==
    LET call == calls[k]
        new == RowOf(tblCommands', call.id)
    IN /\ call.id \in Ids(tblCommands)
       /\ Ids(tblCommands') = Ids(tblCommands)
       /\ Cardinality(tblCommands') = Cardinality(tblCommands)
       /\ \A r \in tblCommands : r.id # call.id => r \in tblCommands'
       /\ new.name = call.form[1].name /\ new.description = call.form[1].description
       /\ new.command = call.form[1].command /\ new.category = call.form[1].category
       /\ new.created_by = RowOf(tblCommands, call.id).created_by
       /\ new.updated_at = call.stamp
       /\ calls'[k].res.rows = <<new>>
       /\ UNCHANGED <<tblUsers, nextId>>

\* C16 (as stated): a successful handleUpdateCommand on id i patches only row i
\* of the store, refreshing its timestamp, and when its response arrives
\* replaces exactly the entry with id i of the local list by the returned row,
\* every other entry, the length and the order of the list staying as they
\* were, and clears the editing target.
C16_UpdateReplacesOnlyMatchingEntry ==
    [][\A k \in 1..Len(calls) :
         /\ (Executed(k, "handleUpdateCommand", "req") /\ calls'[k].res.ok)
            => UpdateExecutedOnOneRow(k)
         /\ Resumed(k, "handleUpdateCommand", "resp")
            => /\ commands' = [i \in 1..Len(commands) |->
                                 IF commands[i].id = calls[k].id THEN calls[k].res.rows[1]
                                                                 ELSE commands[i]]
               /\ editingCommand' = <<>>
      ]_vars

\* C16 (amended): the store part as stated; when the response arrives the local
\* list becomes the list captured when the update was submitted, with exactly
\* its entry of id i replaced by the returned row and its other entries, length
\* and order kept (the list shown just before the response is kept in this way
\* when no other handler changed it since the submission), and the editing
\* target is cleared, which closes the edit dialog.
C16_UpdateReplacesMatchingEntryOfCapturedList ==
    [][/\ (lastAction'.step = "trigger" /\ lastAction'.op = "handleUpdateCommand")
          => /\ calls'[lastAction'.k].snap = commands
             /\ calls'[lastAction'.k].id = editingCommand[1].id
             /\ calls'[lastAction'.k].stamp = clock
       /\ \A k \in 1..Len(calls) :
            /\ (Executed(k, "handleUpdateCommand", "req") /\ calls'[k].res.ok)
               => UpdateExecutedOnOneRow(k)
            /\ Resumed(k, "handleUpdateCommand", "resp")
               => LET call == calls[k]
                  IN /\ Len(commands') = Len(call.snap)
                     /\ \A i \in 1..Len(call.snap) :
                           commands'[i] = IF call.snap[i].id = call.id THEN call.res.rows[1]
                                                                      ELSE call.snap[i]
                     /\ commands = call.snap
                           => /\ Len(commands') = Len(commands)
                              /\ \A i \in 1..Len(commands) :
                                    commands[i].id # call.id => commands'[i] = commands[i]
                     /\ editingCommand' = <<>>
                     /\ showAddModal' = showAddModal
      ]_vars

\* The listed command, a system command when fetched, has been edited into a
\* network command: the list and the store hold the re-stamped row and the
\* dialog is closed.
C16_Witness ==
    /\ route = "commands" /\ ~loading /\ calls = <<>>
    /\ ~ModalOpen
    /\ Len(commands) = 1
    /\ commands[1].id = 1 /\ commands[1].category = "network" /\ commands[1].updated_at > 0
    /\ commands[1] \in tblCommands

\* In this step the reset k, mounted or not, went on from the response it was
\* waiting for at pc.
ResetWentOn(k, pc) ==
    /\ route' = route
    /\ k \in 1..Len(calls)
    /\ calls[k].op = "resetDatabase" /\ calls[k].pc = pc
    /\ \/ calls' = RemoveAt(calls, k)
       \/ Len(calls') = Len(calls) /\ calls'[k] # calls[k]

\* C17 (as stated): the two calls of a reset fail independently of each other:
\* a reset whose command-delete call failed still goes on to its user-reset
\* call, so that users can be reset while the commands are kept.
C17_ResetCallsAreIndependent ==
    [][\A k \in 1..Len(calls) :
         (ResetWentOn(k, "resp") /\ ~calls[k].res.ok)
            => Len(calls') = Len(calls) /\ calls'[k].pc = "req2"
      ]_vars

\* C17 (amended): a reset issues its user-reset call if and only if its
\* command-delete call succeeded; when the delete failed the reset ends there,
\* and when the user reset failed it ends with the commands deleted: in both
\* cases without another call and without touching the store or the view.
C17_ResetStopsAtFirstFailure ==
    [][\A k \in 1..Len(calls) :
         /\ ResetWentOn(k, "resp")
            => IF calls[k].res.ok
               THEN /\ Len(calls') = Len(calls)
                    /\ calls'[k].op = "resetDatabase" /\ calls'[k].pc = "req2"
                    /\ UNCHANGED <<storeVars, adminVars, clock>>
               ELSE /\ calls' = RemoveAt(calls, k)
                    /\ UNCHANGED <<storeVars, adminVars, clock>>
         /\ (ResetWentOn(k, "resp2") /\ ~calls[k].res.ok)
            => /\ calls' = RemoveAt(calls, k)
               /\ UNCHANGED <<storeVars, adminVars, clock>>
         /\ (Executed(k, "resetDatabase", "req2") /\ ~calls'[k].res.ok)
            => UNCHANGED storeVars
      ]_vars

\* The user-reset call of a reset has just failed after its delete succeeded:
\* the store has no command left, u2 is still an administrator, and the view
\* still lists the commands.
C17_Witness ==
    /\ lastAction = Step("caught", "resetDatabase", 0, <<"update">>)
    /\ route = "admin" /\ calls = <<>>
    /\ tblCommands = {}
    /\ tblUsers["u1"] /\ tblUsers["u2"]
    /\ adminCommands # <<>>

\* The lists and counts the two views keep of the store's rows.
localLists == <<commands, users, adminCommands, stats>>

\* C18: while a view stays mounted, its local commands list, users list and
\* stats change only in the step in which the continuation of one of its
\* handlers runs on a successful response: not when a remote call is issued,
\* not while it is executed, and not on a failed response.
C18_LocalStateChangesOnlyOnSuccessfulResponse ==
    [][/\ (route' = route /\ localLists' # localLists)
          => \E k \in 1..Len(calls) :
                /\ calls[k].pc \in {"resp", "resp2"}
                /\ calls[k].res.ok /\ calls[k].live
                /\ calls' = RemoveAt(calls, k)
       /\ (route' = route /\ lastAction'.step = "trigger") => localLists' = localLists
       /\ \A k \in 1..Len(calls) : \A op \in MutatingHandlers :
            Executed(k, op, "req") => localLists' = localLists
      ]_vars

\* A soft-delete has been executed by the store and its response is on its way:
\* the row is inactive in the store while the catalog still lists it.
C18_Witness ==
    /\ route = "commands" /\ ~loading
    /\ \E k \in 1..Len(calls) :
          /\ calls[k].op = "handleDeleteCommand" /\ calls[k].pc = "resp"
          /\ calls[k].res.ok /\ calls[k].live
          /\ \E r \in tblCommands : r.id = calls[k].id /\ ~r.is_active
          /\ \E i \in 1..Len(commands) : commands[i].id = calls[k].id /\ commands[i].is_active

\* The list without its entries of the given id.
Without(list, id) == SelectSeq(list, LAMBDA cmd : cmd.id # id)

\* C19: a soft-delete or a status toggle can be triggered while other calls of
\* the view are in flight, and puts its own call in flight next to them; when a
\* response arrives the local list becomes the one computed from the list that
\* call captured when it was triggered, whatever the list has become since and
\* wherever the call stands among the calls in flight.
C19_LastResponseWinsLocally ==
    /\ [](/\ \A i \in 1..Len(filteredCommands) :
               (CatalogReady /\ ~ModalOpen /\ CanIssue /\ OwnerOrAdmin(filteredCommands[i]))
                  => ENABLED handleDeleteCommand(i, TRUE)
          /\ \A i \in 1..Len(adminCommands) :
               (AdminReady /\ CanIssue) => ENABLED toggleCommandStatus(i))
    /\ [][/\ (lastAction'.step = "trigger"
                 /\ lastAction'.op \in {"handleDeleteCommand", "toggleCommandStatus"})
              => /\ calls' = Append(calls, calls'[Len(calls')])
                 /\ calls'[Len(calls')].snap =
                       (IF lastAction'.op = "handleDeleteCommand" THEN commands
                                                                 ELSE adminCommands)
          /\ \A k \in 1..Len(calls) :
               /\ Resumed(k, "handleDeleteCommand", "resp")
                  => commands' = Without(calls[k].snap, calls[k].id)
               /\ Resumed(k, "deleteCommand", "resp")
                  => adminCommands' = Without(calls[k].snap, calls[k].id)
               /\ Resumed(k, "toggleCommandStatus", "resp")
                  => /\ Len(adminCommands') = Len(calls[k].snap)
                     /\ \A i \in 1..Len(calls[k].snap) :
                           adminCommands'[i] =
                              IF calls[k].snap[i].id = calls[k].id
                              THEN [calls[k].snap[i] EXCEPT !.is_active = ~calls[k].flag]
                              ELSE calls[k].snap[i]
         ]_vars

\* Two overlapping soft-deletes of the two listed commands have both succeeded:
\* both rows are inactive in the store and one of them is still listed.
C19_Witness ==
    /\ route = "commands" /\ ~loading /\ calls = <<>> /\ clock = 3
    /\ Cardinality(tblCommands) = 2
    /\ \A r \in tblCommands : ~r.is_active /\ r.updated_at = 0
    /\ Len(commands) = 1 /\ commands[1].is_active

Admins(tbl) == {u \in Users : tbl[u]}

\* C20: the role button of every listed user can be used, the acting
\* administrator's own and the only remaining administrator's included; the
\* store accepts the call, and a successful call made on a user shown as
\* administrator leaves that user without the flag, even when that empties the
\* set of administrators.
C20_NoSafeguardForAdministrators ==
    /\ [](/\ (AdminReady /\ CanIssue)
               => \A i \in 1..Len(users) : ENABLED toggleUserAdmin(i)
          /\ \A k \in 1..Len(calls) :
               (calls[k].op = "toggleUserAdmin" /\ calls[k].pc = "req")
                  => ENABLED toggleUserAdminExec(k, TRUE))
    /\ [][\A k \in 1..Len(calls) :
            (Executed(k, "toggleUserAdmin", "req") /\ calls'[k].res.ok /\ calls[k].flag)
               => /\ Admins(tblUsers') = Admins(tblUsers) \ {calls[k].uid}
                  /\ (calls[k].uid = calls[k].actor => ~tblUsers'[calls[k].actor])
                  /\ (Admins(tblUsers) = {calls[k].uid} => Admins(tblUsers') = {})
         ]_vars

\* The only administrator, u1, has revoked their own flag with the one handler
\* run since the view was mounted: no profile of the store has the flag.
C20_Witness ==
    /\ route = "admin" /\ ~adminLoading /\ calls = <<>> /\ clock = 2
    /\ user = "u1"
    /\ Admins(tblUsers) = {}
    /\ \A i \in 1..Len(users) : ~users[i].is_admin
    /\ tblCommands \in InitialCommandTables

\* The command of the given id is listed as active.
ListedActive(list, id) == \E i \in 1..Len(list) : list[i].id = id /\ list[i].is_active

\* What the continuation of a successful deleteCommand does to the counts.
DeleteCounted(k) ==
    /\ stats'.totalCommands = stats.totalCommands - 1
    /\ stats'.activeCommands =
          stats.activeCommands - (IF ListedActive(calls[k].snap, calls[k].id) THEN 1 ELSE 0)
    /\ stats'.totalUsers = stats.totalUsers
    /\ stats'.adminUsers = stats.adminUsers
    /\ users' = users

\* C21 (as stated): when a successful deleteCommand of c resolves, exactly c
\* leaves the local command list, totalCommands goes down by 1, activeCommands
\* goes down by 1 if and only if c was listed active when the action was
\* triggered, and totalUsers, adminUsers and the users list stay as they were.
C21_DeleteRemovesExactlyOneListedCommand ==
    [][\A k \in 1..Len(calls) :
         Resumed(k, "deleteCommand", "resp")
            => /\ adminCommands' = Without(adminCommands, calls[k].id)
               /\ DeleteCounted(k)
      ]_vars

\* C21 (amended): deleteCommand is triggered on a listed command c and captures
\* the list; when it resolves successfully the local list becomes the captured
\* list without c, one entry shorter (the list shown just before the response
\* loses exactly c when no other handler changed it since the trigger), and
\* the counts change as stated.
C21_DeleteRemovesCommandFromCapturedList ==
    [][/\ (lastAction'.step = "trigger" /\ lastAction'.op = "deleteCommand")
          => /\ calls'[lastAction'.k].snap = adminCommands
             /\ calls'[lastAction'.k].id \in ListIds(adminCommands)
       /\ \A k \in 1..Len(calls) :
            Resumed(k, "deleteCommand", "resp")
               => /\ adminCommands' = Without(calls[k].snap, calls[k].id)
                  /\ Len(adminCommands') = Len(calls[k].snap) - 1
                  /\ \A i \in 1..Len(calls[k].snap) :
                        calls[k].snap[i].id # calls[k].id
                           => \E j \in 1..Len(adminCommands') :
                                 adminCommands'[j] = calls[k].snap[i]
                  /\ adminCommands = calls[k].snap
                        => adminCommands' = Without(adminCommands, calls[k].id)
                  /\ DeleteCounted(k)
      ]_vars

\* The inactive one of two commands has been deleted by the only handler run
\* since the view was mounted: 1 command of 1 is active, as 1 of 2 was.
C21_Witness ==
    /\ route = "admin" /\ ~adminLoading /\ calls = <<>> /\ clock = 2
    /\ Ids(tblCommands) = {1} /\ nextId = 3
    /\ Len(adminCommands) = 1 /\ adminCommands[1].id = 1 /\ adminCommands[1].is_active
    /\ stats = [totalUsers |-> 2, totalCommands |-> 1, activeCommands |-> 1, adminUsers |-> 1]
    /\ Len(users) = 2

\* The administration view has been loaded and none of its handlers is in flight.
AdminQuiescent ==
    /\ route = "admin" /\ ~adminLoading
    /\ \A k \in 1..Len(calls) : ~calls[k].live

\* C22: whenever the administration view is quiescent, stats.totalCommands is
\* the length of the local commands list and stats.activeCommands is the number
\* of its entries with is_active = TRUE.
C22_QuiescentStatsMatchList ==
    AdminQuiescent
       => /\ stats.totalCommands = Len(adminCommands)
          /\ stats.activeCommands =
                Cardinality({i \in 1..Len(adminCommands) : adminCommands[i].is_active})

\* C23: in every state of the administration view,
\* 0 <= stats.activeCommands <= stats.totalCommands.
C23_ActiveCountWithinTotal ==
    route = "admin" => (0 <= stats.activeCommands /\ stats.activeCommands <= stats.totalCommands)

\* The catalog is shown and none of its handlers awaits a response.
CatalogQuiescent ==
    /\ route = "commands" /\ ~loading
    /\ \A k \in 1..Len(calls) : ~calls[k].live

Occurrences(list, id) == Cardinality({i \in 1..Len(list) : list[i].id = id})

\* C24: no successful create is lost from the catalog: once every call of the
\* mounted catalog has resolved, each row its handleAddCommand calls inserted
\* (and that is still an active row of the store) occurs in the local list
\* exactly once, also when a second form was submitted before the first
\* insert resolved.
C24_NoCreateLost ==
    CatalogQuiescent
        => \A id \in created :
              (\E r \in tblCommands : r.id = id /\ r.is_active) => Occurrences(commands, id) = 1

\* ---------------------------------------------------------------- one client, one action at a time
\* The same component code driven by a single client that starts an action only
\* when no call is in flight, against a store that answers every call successfully.
Idle == calls = <<>>

NextSequential ==
    \/ \E u \in Users : Idle /\ signIn(u)
    \/ Idle /\ signOut
    \/ Idle /\ navigateHome
    \/ Idle /\ mountCommands
    \/ Idle /\ mountAdmin
    \/ \E k \in 1..MaxInFlight : fetchCommandsExec(k, TRUE)
    \/ \E k \in 1..MaxInFlight : fetchCommandsResume(k)
    \/ Idle /\ openAddModal
    \/ \E i \in 1..MaxCommands : Idle /\ startEdit(i)
    \/ Idle /\ closeModal
    \/ \E form \in FormInputs : Idle /\ handleAddCommand(form)
    \/ \E k \in 1..MaxInFlight : handleAddCommandExec(k, TRUE)
    \/ \E k \in 1..MaxInFlight : handleAddCommandResume(k)
    \/ \E form \in FormInputs : Idle /\ handleUpdateCommand(form)
    \/ \E k \in 1..MaxInFlight : handleUpdateCommandExec(k, TRUE)
    \/ \E k \in 1..MaxInFlight : handleUpdateCommandResume(k)
    \/ \E i \in 1..MaxCommands, confirmed \in BOOLEAN : Idle /\ handleDeleteCommand(i, confirmed)
    \/ \E k \in 1..MaxInFlight : handleDeleteCommandExec(k, TRUE)
    \/ \E k \in 1..MaxInFlight : handleDeleteCommandResume(k)
    \/ \E k \in 1..MaxInFlight : fetchDataExecUsers(k, TRUE)
    \/ \E k \in 1..MaxInFlight : fetchDataResumeUsers(k)
    \/ \E k \in 1..MaxInFlight : fetchDataExecCommands(k, TRUE)
    \/ \E k \in 1..MaxInFlight : fetchDataResumeCommands(k)
    \/ \E i \in 1..Cardinality(Users) : Idle /\ toggleUserAdmin(i)
    \/ \E k \in 1..MaxInFlight : toggleUserAdminExec(k, TRUE)
    \/ \E k \in 1..MaxInFlight : toggleUserAdminResume(k)
    \/ \E i \in 1..MaxCommands, confirmed \in BOOLEAN : Idle /\ deleteCommand(i, confirmed)
    \/ \E k \in 1..MaxInFlight : deleteCommandExec(k, TRUE)
    \/ \E k \in 1..MaxInFlight : deleteCommandResume(k)
    \/ \E i \in 1..MaxCommands : Idle /\ toggleCommandStatus(i)
    \/ \E k \in 1..MaxInFlight : toggleCommandStatusExec(k, TRUE)
    \/ \E k \in 1..MaxInFlight : toggleCommandStatusResume(k)
    \/ \E answers \in ResetAnswers : Idle /\ resetDatabase(answers)
    \/ \E k \in 1..MaxInFlight : resetDatabaseExecCommands(k, TRUE)
    \/ \E k \in 1..MaxInFlight : resetDatabaseResumeCommands(k)
    \/ \E k \in 1..MaxInFlight : resetDatabaseExecUsers(k, TRUE)
    \/ \E k \in 1..MaxInFlight : resetDatabaseResumeUsers(k)

SpecSequential == Init /\ [][NextSequential]_vars

ActiveRows == {r \in tblCommands : r.is_active}

\* the catalog's list holds exactly the active rows of the store, each once
CatalogAgreesWithStore ==
    /\ {commands[i] : i \in 1..Len(commands)} = ActiveRows
    /\ Len(commands) = Cardinality(ActiveRows)

\* the administration lists hold the ids of the store, each once, with its flags
AdminAgreesWithStore ==
    /\ ListIds(adminCommands) = Ids(tblCommands)
    /\ Len(adminCommands) = Cardinality(tblCommands)
    /\ \A i \in 1..Len(adminCommands) :
          \A r \in tblCommands : r.id = adminCommands[i].id => r.is_active = adminCommands[i].is_active
    /\ {users[i].id : i \in 1..Len(users)} = Users
    /\ Len(users) = Cardinality(Users)
    /\ \A i \in 1..Len(users) : users[i].is_admin = tblUsers[users[i].id]

\* C25: with a single client whose actions do not overlap and whose calls all
\* succeed, whenever the loaded catalog has no call in flight its local list
\* contains exactly the active rows of the store, and whenever the loaded
\* administration view has no call in flight its users and commands lists
\* agree with the store on the set of ids and on every is_admin and is_active flag.
C25_SequentialViewsAgreeWithStore ==
    /\ (route = "commands" /\ ~loading /\ Idle) => CatalogAgreesWithStore
    /\ (route = "admin" /\ ~adminLoading /\ Idle) => AdminAgreesWithStore

C25_Witness ==
    /\ route = "commands" /\ ~loading /\ Idle
    /\ clock = 3 /\ created # {}
    /\ Len(commands) = 2 /\ Cardinality(ActiveRows) = 2

\* C26: every entry of the catalog's local list is active and no two entries
\* share an id, whatever fetches, creates, updates and soft-deletes have been
\* triggered and resolved, overlapping ones included.
C26_CatalogEntriesActiveAndDistinct ==
    /\ \A i \in 1..Len(commands) : commands[i].is_active
    /\ \A i, j \in 1..Len(commands) : commands[i].id = commands[j].id => i = j

C26_Witness ==
    /\ route = "commands" /\ ~loading /\ calls = <<>>
    /\ Len(commands) = 2 /\ created # {}
    /\ \E i \in 1..Len(commands) : commands[i].id \notin created /\ commands[i].updated_at > 0

\* C27: fetchData is all-or-nothing. Its commands query is issued only by a
\* fetchData whose users query succeeded; when the users query fails the
\* handler ends without issuing it; and when either query fails in a mounted
\* view, the users list, the commands list and the stats keep their values
\* while the loading flag becomes false.
C27_FetchDataAllOrNothing ==
    [][\A k \in 1..Len(calls) :
         /\ (Returned(k, "fetchData", "resp") /\ ~calls[k].res.ok)
               => /\ calls' = RemoveAt(calls, k)
                  /\ UNCHANGED <<users, adminCommands, stats>>
                  /\ adminLoading' = FALSE
         /\ (Returned(k, "fetchData", "resp2") /\ ~calls[k].res.ok)
               => /\ calls' = RemoveAt(calls, k)
                  /\ UNCHANGED <<users, adminCommands, stats>>
                  /\ adminLoading' = FALSE
         /\ ( /\ Len(calls') = Len(calls)
              /\ calls'[k].op = "fetchData" /\ calls'[k].pc = "req2"
              /\ calls[k] # calls'[k] )
               => /\ calls[k].op = "fetchData" /\ calls[k].pc = "resp"
                  /\ calls[k].res.ok
      ]_vars

C27_Witness ==
    /\ route = "admin" /\ calls = <<>> /\ ~adminLoading
    /\ lastAction = Step("caught", "fetchData", 0, <<>>)
    /\ tblCommands = {} /\ Len(adminCommands) = 2
    /\ Len(users) = 2 /\ stats.totalCommands = 2

\* C28: the calls of a reset are ordered. Its user-reset call is issued only
\* from a successful response to its command-delete call, and the refetch only
\* from a successful response to its user-reset call. While the delete is
\* executed, and when its failed response arrives, no user profile, local list
\* or stat changes, and the handler ends there: no user reset and no refetch.
C28_ResetCallsAreOrdered ==
    [][\A k \in 1..Len(calls) :
         /\ ( /\ route' = route /\ Len(calls') = Len(calls) /\ calls'[k] # calls[k]
              /\ calls'[k].op = "resetDatabase" /\ calls'[k].pc = "req2" )
               => /\ calls[k].op = "resetDatabase" /\ calls[k].pc = "resp"
                  /\ calls[k].res.ok
         /\ ( /\ route' = route /\ Len(calls') = Len(calls) /\ calls'[k] # calls[k]
              /\ calls'[k].op = "fetchData" /\ calls'[k].pc = "req" )
               => /\ calls[k].op = "resetDatabase" /\ calls[k].pc = "resp2"
                  /\ calls[k].res.ok
         /\ Executed(k, "resetDatabase", "req")
               => UNCHANGED <<tblUsers, users, adminCommands, stats>>
         /\ (ResetWentOn(k, "resp") /\ ~calls[k].res.ok)
               => /\ calls' = RemoveAt(calls, k)
                  /\ UNCHANGED <<tblCommands, tblUsers, users, adminCommands, stats>>
      ]_vars

\* The command-delete call of a reset has just failed: the store and the view
\* still hold both commands and the same administrators.
C28_Witness ==
    /\ lastAction = Step("caught", "resetDatabase", 0, <<"delete">>)
    /\ route = "admin" /\ calls = <<>> /\ ~adminLoading
    /\ Cardinality(tblCommands) = 2 /\ Len(adminCommands) = 2
    /\ stats.totalCommands = 2 /\ Len(users) = 2
    /\ Admins(tblUsers) = {u \in Users : FlagShown(users, u)}


============================================================================
